---- MODULE Spec2Model ----
(***************************************************************************)
(* Gesture-driven scene state machine of the christmas-tree application:   *)
(* the page component (pages/Index.tsx and its toggle-button variant), the *)
(* useHandGesture hook (classifier, stabilizer, MediaPipe session          *)
(* lifecycle) and the pointer fallback wiring.                             *)
(*                                                                         *)
(* React state is modelled by its committed value (the value the next      *)
(* render will see); what callbacks and child hooks read is the snapshot   *)
(* taken by the last render (refs assigned during render, props, closures).*)
(* Coordinates are integers in units of 1/100 of the normalized range, so  *)
(* distances are compared squared: dist < 0.06 iff distSq < 36.            *)
(***************************************************************************)
EXTENDS Integers, Sequences, FiniteSets, TLC

\* ------------------------------------------------------------------ bounds
\* number of hook effect runs (MediaPipe sessions) a behaviour may start
MaxSessions == 2
\* number of uploaded photos a behaviour may hold (the program allows 12)
MaxUploaded == 1
\* length up to which a run of equally classified frames is counted
MaxRun == 2
\* number of scene-mode changes an animated group may see after it mounted
MaxChanges == 2
\* longest stretch of time the camera smoothing is followed over, in
\* half-lives of its exponential decay
MaxDelta == 4
MaxStreams == 3

\* ------------------------------------------------------- program constants
\* focusedPhotoIndex === null
NoIndex == -1
\* 0.06 squared, in units of 1/100
PinchThresholdSq == 36
\* landmarks.length < 21
LandmarkCount == 21
\* pinchDistance: 1 (initial hook state), squared, in units of 1/100
InitialPinchDistance == 10000
\* progress 1 of transitionRef.current, in units of 1/10000
Unit == 10000
\* Math.abs(progress - lastProgressRef.current) < 0.001, in units of 1/10000
IdleEpsilon == 10
\* frameCountRef.current % 3
IdleEvery == 3
\* Math.sin(...) * 0.02, the breathing amplitude, in units of 1/10000
BreatheAmplitude == 200
\* transitionDelayRef.current = 2.0, in camera frames of 1 s
AssemblyDelayFrames == 2
\* camera frames the climb of ribbonTimeRef.current from 0 to 1 takes
RibbonFrames == 2
\* duration: 1.8 of the ParticleSystem tween, in animation frames of 0.1 s
ParticleTweenFrames == 18
\* duration: 1.5 of the OrnamentBalls tween, in animation frames of 0.1 s
OrnamentTweenFrames == 15

Pages == {"Index", "Toggle"}
TreeStates == {"tree", "galaxy", "focus"}
GestureTypes == {"none", "fist", "open", "pinch", "pointing"}

\* default photo count and index capacity of handleGestureChange, per page
Capacity(p) == IF p = "Index" THEN 12 ELSE 20

Min(a, b) == IF a < b THEN a ELSE b

\* -------------------------------------------------------------- landmarks
\* a landmark point; def = FALSE is the JavaScript value undefined
Pt(x, y, z) == [def |-> TRUE, x |-> x, y |-> y, z |-> z]
Undefined == [def |-> FALSE, x |-> 0, y |-> 0, z |-> 0]

\* landmarks[i] of a JavaScript array (0-based; out of range is undefined)
At(lm, i) == IF i + 1 <= Len(lm.pts) THEN lm.pts[i + 1] ELSE Undefined

\* a 21-point hand: ie/me/re/pe say whether index/middle/ring/pinky are
\* extended (tip above the MCP joint), dx is the thumb-tip offset from the
\* index tip, px the x coordinate of the palm centre (landmark 9)
TipY(ext) == IF ext THEN 30 ELSE 70
Hand(ie, me, re, pe, dx, px) ==
  [null |-> FALSE,
   pts |-> [k \in 1..LandmarkCount |->
     CASE k - 1 = 4  -> Pt(50 + dx, TipY(ie), 0)
       [] k - 1 = 8  -> Pt(50, TipY(ie), 0)
       [] k - 1 = 12 -> Pt(55, TipY(me), 0)
       [] k - 1 = 16 -> Pt(60, TipY(re), 0)
       [] k - 1 = 20 -> Pt(65, TipY(pe), 0)
       [] k - 1 = 9  -> Pt(px, 50, 0)
       [] OTHER      -> Pt(50, 50, 0)]]

\* the first n points of a hand (a truncated landmark array)
Truncated(lm, n) == [null |-> FALSE, pts |-> SubSeq(lm.pts, 1, n)]
\* a hand whose point i is missing (a hole in the array)
WithHole(lm, i) ==
  [null |-> FALSE,
   pts |-> [k \in 1..Len(lm.pts) |-> IF k - 1 = i THEN Undefined ELSE lm.pts[k]]]
\* multiHandLandmarks[0] === null
NullLandmarks == [null |-> TRUE, pts |-> <<>>]

FistHand == Hand(FALSE, FALSE, FALSE, FALSE, 40, 40)
OpenHand == Hand(TRUE, TRUE, TRUE, TRUE, 40, 40)
PinchHand == Hand(TRUE, TRUE, FALSE, FALSE, 3, 30)
PointHand == Hand(TRUE, FALSE, FALSE, FALSE, 40, 40)
TwoHand == Hand(TRUE, TRUE, FALSE, FALSE, 40, 40)

WellFormed == {FistHand, OpenHand, PinchHand, PointHand, TwoHand}
Malformed == {Truncated(OpenHand, 5), Truncated(OpenHand, 15),
              WithHole(FistHand, 4)}

\* results.multiHandLandmarks of one sensor frame (maxNumHands: 1)
NoHand == <<>>
Results == {NoHand} \cup {<<lm>> : lm \in WellFormed \cup Malformed}

\* ---------------------------------------------------------- classifier
Sq(a) == a * a

\* whether calculateFingerDistance reads p1.x / p2.x without a TypeError
CanDistance(lm, f1, f2) == At(lm, f1).def /\ At(lm, f2).def

\* squared distance (units of 1/100); Math.sqrt is monotone, so comparing
\* the square with the squared threshold is the code's comparison
calculateFingerDistance(lm, f1, f2) ==
  Sq(At(lm, f1).x - At(lm, f2).x) + Sq(At(lm, f1).y - At(lm, f2).y)
    + Sq(At(lm, f1).z - At(lm, f2).z)

Extended(lm, tip, mcp) == At(lm, tip).y < At(lm, mcp).y

ExtendedCount(lm) ==
  Cardinality({f \in {<<8, 5>>, <<12, 9>>, <<16, 13>>, <<20, 17>>} :
                 Extended(lm, f[1], f[2])})

\* detectGesture without the length test of its first line
detectGesture_NoLengthCheck(lm) ==
  IF lm.null THEN "none"
  ELSE IF ~CanDistance(lm, 4, 8) THEN "TypeError"
  ELSE IF calculateFingerDistance(lm, 4, 8) < PinchThresholdSq THEN "pinch"
  ELSE IF \E i \in {8, 5, 12, 9, 16, 13, 20, 17} : ~At(lm, i).def THEN "TypeError"
  ELSE IF ExtendedCount(lm) >= 3 THEN "open"
  ELSE IF ExtendedCount(lm) <= 1 THEN "fist"
  ELSE IF Extended(lm, 8, 5) /\ ~Extended(lm, 12, 9) /\ ~Extended(lm, 16, 13)
          /\ ~Extended(lm, 20, 17) THEN "pointing"
  ELSE "none"

\* detectGesture with the pinch test moved after the finger counts
detectGesture_PinchLast(lm) ==
  IF lm.null \/ Len(lm.pts) < LandmarkCount THEN "none"
  ELSE IF \E i \in {4, 8, 5, 12, 9, 16, 13, 20, 17} : ~At(lm, i).def THEN "TypeError"
  ELSE IF ExtendedCount(lm) >= 3 THEN "open"
  ELSE IF ExtendedCount(lm) <= 1 THEN "fist"
  ELSE IF calculateFingerDistance(lm, 4, 8) < PinchThresholdSq THEN "pinch"
  ELSE "none"

\* detectGesture with extendedCount >= 2 for 'open'
detectGesture_OpenAtTwo(lm) ==
  IF lm.null \/ Len(lm.pts) < LandmarkCount THEN "none"
  ELSE IF ~CanDistance(lm, 4, 8) THEN "TypeError"
  ELSE IF calculateFingerDistance(lm, 4, 8) < PinchThresholdSq THEN "pinch"
  ELSE IF \E i \in {8, 5, 12, 9, 16, 13, 20, 17} : ~At(lm, i).def THEN "TypeError"
  ELSE IF ExtendedCount(lm) >= 2 THEN "open"
  ELSE IF ExtendedCount(lm) <= 1 THEN "fist"
  ELSE "none"

\* detectGesture; "TypeError" is the exception reading a field of undefined
detectGesture(lm) ==
  IF lm.null \/ Len(lm.pts) < LandmarkCount THEN "none"
  ELSE IF ~CanDistance(lm, 4, 8) THEN "TypeError"
  ELSE IF calculateFingerDistance(lm, 4, 8) < PinchThresholdSq THEN "pinch"
  ELSE IF \E i \in {8, 5, 12, 9, 16, 13, 20, 17} : ~At(lm, i).def THEN "TypeError"
  ELSE IF ExtendedCount(lm) >= 3 THEN "open"
  ELSE IF ExtendedCount(lm) <= 1 THEN "fist"
  ELSE IF Extended(lm, 8, 5) /\ ~Extended(lm, 12, 9) /\ ~Extended(lm, 16, 13)
          /\ ~Extended(lm, 20, 17) THEN "pointing"
  ELSE "none"

\* ------------------------------------------------------------------ state
VARIABLES
  page,               \* which page component is mounted (fixed after Init)
  treeState,          \* useState<TreeState>('tree')
  focusedPhotoIndex,  \* useState<number | null>(null)
  photos,             \* photos.length
  cameraPermission,   \* Index page: 'prompt' | 'requesting' | 'granted' | 'denied'
  gestureEnabled,     \* Toggle page: useState(false)
  treeStateRef,       \* the mode the gesture handler reads (as of the last render)
  photosRef,          \* the photo count the handler and PhotoUpload read
  mouseFallback,      \* props of useMouseFallback as of the last render
  effectEnabled,      \* `enabled` of the hook as of the last render
  state,              \* hook state {gesture, handPosition, pinchDistance, isTracking}
  status,             \* hook status string
  lastGestureRef,     \* last gesture symbol passed to the callback
  videoRef,           \* session whose <video> is in videoRef.current, 0 = null
  handsRef,           \* session whose Hands is in handsRef.current, 0 = null
  sessions,           \* one record per run of the hook's effect
  scripts,            \* the <script> tag of each CDN source in the document
  thrown,             \* whether the last onResults call raised an exception
  callbackArg,        \* gesture the last onResults call passed to the callback
  lastFrame,          \* classification of the frame of the last onResults call
  lastEvent,          \* the last gesture-change event or double-click, and the
                      \* mode it found
  run,                \* length of the current run of consecutive tracked frames
                      \* with one classification, and the callbacks made in it
  landmarkSet,        \* classifier on its own: the argument of detectGesture
  classified,         \* classifier on its own: the value detectGesture returned
  group,              \* animated group on its own: which component it is
  stateProp,          \* the `state` prop of the group's last render
  changes,            \* number of changes of that prop since the mount
  tickerFirst,        \* whether GSAP's ticker runs before the useFrame callbacks
  tweened,            \* transitionRef.current.progress, or for a K-line
                      \* element positionsRef.current[i][0]
  tweens,             \* GSAP's running tweens of that number, oldest first
  isTransitioningRef, \* isTransitioningRef.current
  lastProgressRef,    \* lastProgressRef.current
  frameCountRef,      \* frameCountRef.current % 3
  drawn,              \* the last useFrame call: the progress it read and
                      \* whether it updated the instances
  prevStateRef,       \* CameraController: prevStateRef.current
  transitionDelayRef, \* transitionDelayRef.current, in camera frames
  ribbonTimeRef,      \* ribbonTimeRef.current, in steps of 1 / RibbonFrames
  isAtStarRef,        \* isAtStarRef.current
  starFocused,        \* the last value passed to onStarFocused, as a string
  cameraTarget,       \* the target the last camera frame computed
  seenEvent,          \* history: lastEvent as it was at the last camera frame
  element,            \* frame position on its own: the element (its group,
                      \* delay, tree and galaxy position, breathing sine)
  globalProgress,     \* frame position on its own: the progress of the frame
  framed,             \* frame position on its own: what the frame computed
  controller,         \* camera smoothing on its own: the CameraController
  positionRef,        \* positionRef.current.x
  startX,             \* positionRef.current.x before the first step
  targetX,            \* the fixed targetX
  totalDelta,         \* the stretch of time to cover
  elapsed,            \* the sum of the `delta` of the frames so far
  hookVariant,        \* which useHandGesture is mounted (fixed after Init):
                      \* "ref" keeps the callback in onGestureChangeRef,
                      \* "deps" lists it in the dependencies of onResults
  cardProps,          \* one photo card on its own: the `state` and
                      \* `isFocused` props of PhotoCardMesh's last render
  texture,            \* whether the `texture` state is set
  cardPosition,       \* meshRef.current.position
  cardScale,          \* meshRef.current.scale
  cardTweens,         \* the targets of the running position and scale tweens
  debugProps,         \* camera preview on its own: `enabled`, isVisible and
                      \* isMinimized of CameraDebug's last render
  streams,            \* the streams it requested, oldest first
  streamRef           \* streamRef.current: an index of streams, 0 for null

vars == <<page, treeState, focusedPhotoIndex, photos, cameraPermission,
          gestureEnabled, treeStateRef, photosRef, mouseFallback, effectEnabled,
          state, status, lastGestureRef, videoRef, handsRef, sessions, scripts,
          thrown,
          callbackArg, lastFrame, lastEvent, run, landmarkSet, classified,
          group, stateProp, changes, tickerFirst, tweened, tweens,
          isTransitioningRef, lastProgressRef, frameCountRef, drawn,
          prevStateRef, transitionDelayRef, ribbonTimeRef, isAtStarRef,
          starFocused, cameraTarget, seenEvent, element, globalProgress, framed,
          controller, positionRef, startX, targetX, totalDelta, elapsed,
          hookVariant, cardProps, texture, cardPosition, cardScale, cardTweens,
          debugProps, streams, streamRef>>

sceneVars == <<treeState, focusedPhotoIndex>>
renderVars == <<treeStateRef, photosRef, mouseFallback, effectEnabled>>
hookVars == <<state, lastGestureRef, thrown, callbackArg, lastFrame, lastEvent, run>>
sessionVars == <<status, videoRef, handsRef, sessions, scripts>>
classifierVars == <<landmarkSet, classified>>
\* the variables the page, the hook and the fallback never touch
tweenVars == <<group, stateProp, changes, tickerFirst, tweened, tweens,
               isTransitioningRef, lastProgressRef, frameCountRef, drawn>>
cameraVars == <<prevStateRef, transitionDelayRef, ribbonTimeRef, isAtStarRef,
                starFocused, cameraTarget, seenEvent>>
positionVars == <<element, globalProgress, framed>>
smoothingVars == <<controller, positionRef, startX, targetX, totalDelta, elapsed>>
variantVars == <<hookVariant>>
cardVars == <<cardProps, texture, cardPosition, cardScale, cardTweens>>
debugVars == <<debugProps, streams, streamRef>>
otherVars == <<classifierVars, tweenVars, cameraVars, positionVars, smoothingVars,
               variantVars,
               cardVars,
               debugVars>>

NoPosition == <<>>
NoCallback == "-"
NoFrame == "-"
NoRun == [len |-> 0, emits |-> 0]
Unclassified == "-"
\* a tween that has not rendered yet has recorded no start value
NoStart == -1
NotDrawn == [progress |-> 0, updated |-> FALSE]
NotCalled == "-"
NoTarget == [kind |-> "-", baseDistance |-> 0]
NotFramed ==
  [smooth |-> 0, interpolated |-> 0, breathe |-> 0, position |-> 0, done |-> FALSE]

\* `enabled` passed to useHandGesture
HookEnabled ==
  IF page = "Index" THEN cameraPermission = "granted" ELSE gestureEnabled

\* props passed to useMouseFallback
MouseFallbackProps == [enabled |-> ~state.isTracking, currentState |-> treeState]

\* nothing is waiting for a render
Rendered ==
  /\ treeStateRef = treeState
  /\ photosRef = photos
  /\ mouseFallback = MouseFallbackProps
  /\ effectEnabled = HookEnabled

\* the page as mounted
SceneInit ==
  /\ page \in Pages
  /\ treeState = "tree"
  /\ focusedPhotoIndex = NoIndex
  /\ photos = 0
  /\ cameraPermission = "prompt"
  /\ gestureEnabled = FALSE
  /\ treeStateRef = "tree"
  /\ photosRef = 0
  /\ mouseFallback = [enabled |-> TRUE, currentState |-> "tree"]
  /\ effectEnabled = FALSE
  /\ state = [gesture |-> "none", handPosition |-> NoPosition,
              pinchDistance |-> InitialPinchDistance, isTracking |-> FALSE]
  /\ status = "idle"
  /\ lastGestureRef = "none"
  /\ videoRef = 0
  /\ handsRef = 0
  /\ sessions = <<>>
  /\ scripts = [k \in 1..2 |-> "absent"]
  /\ thrown = FALSE
  /\ callbackArg = NoCallback
  /\ lastFrame = NoFrame
  /\ lastEvent = [kind |-> "-", from |-> "tree"]
  /\ run = NoRun

\* no landmark set under classification
ClassifierIdle ==
  /\ landmarkSet = NullLandmarks
  /\ classified = Unclassified

\* no animated group under observation
TweenIdle ==
  /\ group = "particles"
  /\ stateProp = "tree"
  /\ changes = 0
  /\ tickerFirst = TRUE
  /\ tweened = 0
  /\ tweens = <<>>
  /\ isTransitioningRef = FALSE
  /\ lastProgressRef = 0
  /\ frameCountRef = 0
  /\ drawn = NotDrawn

\* CameraController as mounted
CameraInit ==
  /\ prevStateRef = "tree"
  /\ transitionDelayRef = 0
  /\ ribbonTimeRef = 0
  /\ isAtStarRef = FALSE
  /\ starFocused = NotCalled
  /\ cameraTarget = NoTarget
  /\ seenEvent = [kind |-> "-", from |-> "tree"]

\* no frame position under computation
PositionIdle ==
  /\ element = [group |-> "particles", delay |-> 0, treePos |-> 0,
                galaxyPos |-> 0, sine |-> 0]
  /\ globalProgress = 0
  /\ framed = NotFramed

\* the hook of src/src/hooks/useHandGesture.ts
VariantIdle == hookVariant = "ref"

\* no tween of the card's position or scale is running
NoTweens == [position |-> "-", scale |-> "-"]

\* the photo card before its first render
CardIdle ==
  /\ cardProps = [state |-> "tree", isFocused |-> FALSE]
  /\ texture = FALSE
  /\ cardPosition = "-"
  /\ cardScale = "-"
  /\ cardTweens = NoTweens

\* the camera preview before the permission is granted
DebugIdle ==
  /\ debugProps = [enabled |-> FALSE, isVisible |-> TRUE, isMinimized |-> FALSE]
  /\ streams = <<>>
  /\ streamRef = 0

\* no camera smoothing under observation
SmoothingIdle ==
  /\ controller = "decay3"
  /\ positionRef = 0
  /\ startX = 0
  /\ targetX = 0
  /\ totalDelta = 0
  /\ elapsed = 0

Init ==
  /\ SceneInit
  /\ ClassifierIdle
  /\ TweenIdle
  /\ CameraInit
  /\ PositionIdle
  /\ SmoothingIdle
  /\ VariantIdle
  /\ CardIdle
  /\ DebugIdle

\* ------------------------------------------------------ scene state machine
\* photoCount of the pinch branch, from the photo count the handler reads
PhotoCount == IF photosRef > 0 THEN photosRef ELSE Capacity(page)

\* values of Math.random(), in thousandths
RandomDraws == {0, 500, 999}

\* Math.floor(Math.random() * Math.min(photoCount, capacity))
RandomIndices ==
  {(r * Min(PhotoCount, Capacity(page))) \div 1000 : r \in RandomDraws}

\* handleGestureChange without setFocusedPhotoIndex(null) in the fist and
\* open branches
handleGestureChange_KeepFocus(gesture) ==
  CASE gesture = "fist" ->
         /\ treeState' = "tree"
         /\ UNCHANGED focusedPhotoIndex
    [] gesture = "open" ->
         /\ treeState' = "galaxy"
         /\ UNCHANGED focusedPhotoIndex
    [] gesture = "pinch" /\ treeStateRef = "galaxy" ->
         /\ \E randomIndex \in RandomIndices : focusedPhotoIndex' = randomIndex
         /\ treeState' = "focus"
    [] gesture = "pinch" /\ treeStateRef = "focus" ->
         /\ focusedPhotoIndex' = NoIndex
         /\ treeState' = "galaxy"
    [] OTHER -> UNCHANGED sceneVars

\* handleGestureChange(gesture)
handleGestureChange(gesture) ==
  CASE gesture = "fist" ->
         /\ treeState' = "tree"
         /\ focusedPhotoIndex' = NoIndex
    [] gesture = "open" ->
         /\ treeState' = "galaxy"
         /\ focusedPhotoIndex' = NoIndex
    [] gesture = "pinch" /\ treeStateRef = "galaxy" ->
         /\ \E randomIndex \in RandomIndices : focusedPhotoIndex' = randomIndex
         /\ treeState' = "focus"
    [] gesture = "pinch" /\ treeStateRef = "focus" ->
         /\ focusedPhotoIndex' = NoIndex
         /\ treeState' = "galaxy"
    [] OTHER -> UNCHANGED sceneVars

\* ------------------------------------------------------------- stabilizer
\* the stabilizer without its comparison: every tracked frame is a change
GestureChangedAlways(gesture) == TRUE

\* gesture !== lastGestureRef.current
GestureChanged(gesture) == gesture # lastGestureRef

\* whether onResults(results) raises a TypeError: in detectGesture, reading
\* palmCenter.x, or in calculateFingerDistance(landmarks, 4, 8)
Throws(results) ==
  /\ Len(results) > 0
  /\ \/ detectGesture(results[1]) = "TypeError"
     \/ ~At(results[1], 9).def
     \/ ~CanDistance(results[1], 4, 8)

\* the run after a tracked frame classified as gesture (emitted: the callback
\* was invoked for it)
NextRun(gesture, emitted) ==
  IF lastFrame = gesture
  THEN [len |-> Min(run.len + 1, MaxRun),
        emits |-> Min(run.emits + (IF emitted THEN 1 ELSE 0), 2)]
  ELSE [len |-> 1, emits |-> IF emitted THEN 1 ELSE 0]

\* onResults that also sends the scene back to Tree when the hand is lost
onResults_ResetOnLoss(results) ==
  IF Len(results) > 0 THEN
    IF Throws(results) THEN
      /\ thrown' = TRUE
      /\ callbackArg' = NoCallback
      /\ lastFrame' = NoFrame
      /\ run' = NoRun
      /\ UNCHANGED <<state, lastGestureRef, sceneVars, lastEvent>>
    ELSE
      LET landmarks == results[1]
          gesture == detectGesture(landmarks)
          palmCenter == At(landmarks, 9)
      IN /\ thrown' = FALSE
         /\ IF GestureChanged(gesture)
            THEN /\ lastGestureRef' = gesture
                 /\ callbackArg' = gesture
                 /\ lastEvent' = [kind |-> gesture, from |-> treeState]
                 /\ handleGestureChange(gesture)
            ELSE /\ callbackArg' = NoCallback
                 /\ UNCHANGED <<lastGestureRef, sceneVars, lastEvent>>
         /\ lastFrame' = gesture
         /\ run' = NextRun(gesture, GestureChanged(gesture))
         /\ state' = [gesture |-> gesture,
                      handPosition |-> <<100 - palmCenter.x, palmCenter.y>>,
                      pinchDistance |-> calculateFingerDistance(landmarks, 4, 8),
                      isTracking |-> TRUE]
  ELSE
    /\ state' = [state EXCEPT !.isTracking = FALSE, !.handPosition = NoPosition]
    /\ thrown' = FALSE
    /\ callbackArg' = NoCallback
    /\ lastFrame' = NoFrame
    /\ run' = NoRun
    /\ treeState' = "tree"
    /\ UNCHANGED <<lastGestureRef, focusedPhotoIndex, lastEvent>>

\* onResults(results): the callback MediaPipe invokes with one frame's result
onResults(results) ==
  IF Len(results) > 0 THEN
    IF Throws(results) THEN
      /\ thrown' = TRUE
      /\ callbackArg' = NoCallback
      /\ lastFrame' = NoFrame
      /\ run' = NoRun
      /\ UNCHANGED <<state, lastGestureRef, sceneVars, lastEvent>>
    ELSE
      LET landmarks == results[1]
          gesture == detectGesture(landmarks)
          palmCenter == At(landmarks, 9)
      IN /\ thrown' = FALSE
         /\ IF GestureChanged(gesture)
            THEN /\ lastGestureRef' = gesture
                 /\ callbackArg' = gesture
                 /\ lastEvent' = [kind |-> gesture, from |-> treeState]
                 /\ handleGestureChange(gesture)
            ELSE /\ callbackArg' = NoCallback
                 /\ UNCHANGED <<lastGestureRef, sceneVars, lastEvent>>
         /\ lastFrame' = gesture
         /\ run' = NextRun(gesture, GestureChanged(gesture))
         /\ state' = [gesture |-> gesture,
                      handPosition |-> <<100 - palmCenter.x, palmCenter.y>>,
                      pinchDistance |-> calculateFingerDistance(landmarks, 4, 8),
                      isTracking |-> TRUE]
  ELSE
    /\ state' = [state EXCEPT !.isTracking = FALSE, !.handPosition = NoPosition]
    /\ thrown' = FALSE
    /\ callbackArg' = NoCallback
    /\ lastFrame' = NoFrame
    /\ run' = NoRun
    /\ UNCHANGED <<lastGestureRef, sceneVars, lastEvent>>

\* ------------------------------------------------- hook effect (a session)
Session(pc, mounted, stream) == [pc |-> pc, mounted |-> mounted, stream |-> stream]
SessionIds == 1 .. Len(sessions)

ErrorStatuses == {"error: load", "error: no Hands", "error: camera",
                  "error: playback", "error: no dimensions"}

\* the catch block of initMediaPipe
Fail(s, message) ==
  /\ status' = message
  /\ state' = [state EXCEPT !.isTracking = FALSE]
  /\ sessions' = [sessions EXCEPT ![s].pc = "failed"]
  /\ UNCHANGED <<videoRef, handsRef, lastGestureRef, thrown, callbackArg, lastFrame,
                 lastEvent, run>>

\* loadScript(cdnSources[k]): resolved at once when the document already
\* holds a <script> tag with that src, else a tag is appended and awaited
LoadPc(k) ==
  IF scripts[k] = "absent"
  THEN (IF k = 1 THEN "load1" ELSE "load2")
  ELSE (IF k = 1 THEN "cached1" ELSE "cached2")
ScriptsOnLoad(k) ==
  IF scripts[k] = "absent" THEN [scripts EXCEPT ![k] = "loading"] ELSE scripts

\* window.Hands is defined once a source has really been loaded
HandsDefined(scr) == \E k \in 1..2 : scr[k] = "loaded"

\* after the CDN loop: mounted check, Hands global, getUserMedia call
AfterLoad(s, scr) ==
  IF ~sessions[s].mounted THEN
    /\ sessions' = [sessions EXCEPT ![s].pc = "returned"]
    /\ UNCHANGED <<status, videoRef, handsRef, hookVars>>
  ELSE IF ~HandsDefined(scr) THEN Fail(s, "error: no Hands")
  ELSE
    /\ status' = "requesting-camera"
    /\ sessions' = [sessions EXCEPT ![s].pc = "getUserMedia"]
    /\ UNCHANGED <<videoRef, handsRef, hookVars>>

\* await loadScript(src) of the CDN loop settles (ok: the script loaded)
LoadScript(s, ok) ==
  /\ sessions[s].pc \in {"load1", "load2", "cached1", "cached2"}
  /\ sessions[s].pc \in {"cached1", "cached2"} => ok
  /\ LET k == IF sessions[s].pc \in {"load1", "cached1"} THEN 1 ELSE 2
         settled == IF sessions[s].pc \in {"load1", "load2"}
                    THEN [scripts EXCEPT ![k] = IF ok THEN "loaded" ELSE "failed"]
                    ELSE scripts
     IN IF ok THEN
          /\ scripts' = settled
          /\ AfterLoad(s, settled)
        ELSE IF k = 1 THEN
          /\ IF sessions[s].mounted
             THEN /\ sessions' = [sessions EXCEPT ![s].pc = IF settled[2] = "absent" THEN "load2" ELSE "cached2"]
                  /\ scripts' = [settled EXCEPT ![2] = IF @ = "absent" THEN "loading" ELSE @]
             ELSE /\ sessions' = [sessions EXCEPT ![s].pc = "returned"]
                  /\ scripts' = settled
          /\ UNCHANGED <<status, videoRef, handsRef, hookVars>>
        ELSE
          /\ scripts' = settled
          /\ Fail(s, "error: load")
  /\ UNCHANGED <<page, sceneVars, photos, cameraPermission, gestureEnabled, renderVars>>
  /\ UNCHANGED otherVars

\* navigator.mediaDevices.getUserMedia settles
GetUserMedia(s, ok) ==
  /\ sessions[s].pc = "getUserMedia"
  /\ IF ~ok THEN Fail(s, "error: camera")
     ELSE IF ~sessions[s].mounted THEN
       /\ sessions' = [sessions EXCEPT ![s] = Session("returned", FALSE, "stopped")]
       /\ UNCHANGED <<status, videoRef, handsRef, hookVars>>
     ELSE
       /\ sessions' = [sessions EXCEPT ![s] = Session("play", TRUE, "live")]
       /\ videoRef' = s
       /\ UNCHANGED <<status, handsRef, hookVars>>
  /\ UNCHANGED <<page, sceneVars, photos, cameraPermission, gestureEnabled, renderVars,
                 scripts>>
  /\ UNCHANGED otherVars

\* video.play() settles and the wait for video dimensions ends; then the
\* Hands instance is created and the first animation frame requested
VideoStart(s, outcome) ==
  /\ sessions[s].pc = "play"
  /\ CASE outcome = "rejected" -> Fail(s, "error: playback")
       [] outcome = "no dimensions" -> Fail(s, "error: no dimensions")
       [] OTHER ->
            /\ handsRef' = s
            /\ status' = "processing-frames"
            /\ sessions' = [sessions EXCEPT ![s].pc = "raf"]
            /\ UNCHANGED <<videoRef, hookVars>>
  /\ UNCHANGED <<page, sceneVars, photos, cameraPermission, gestureEnabled, renderVars,
                 scripts>>
  /\ UNCHANGED otherVars

\* the animation-frame callback processFrame runs, up to its await of
\* hands.send (a throttled call reschedules itself and changes nothing)
ProcessFrame(s) ==
  /\ sessions[s].pc = "raf"
  /\ sessions' = [sessions EXCEPT
       ![s].pc = IF ~sessions[s].mounted \/ handsRef = 0 \/ videoRef = 0
                 THEN "returned" ELSE "send"]
  /\ UNCHANGED <<page, sceneVars, photos, cameraPermission, gestureEnabled,
                 renderVars, hookVars, status, videoRef, handsRef, scripts>>
  /\ UNCHANGED otherVars

\* what processFrame does once its await of hands.send is over
AfterSend(s) == sessions' = [sessions EXCEPT ![s].pc = "raf"]

\* hands.send delivers the frame's result to onResults and resolves
SendComplete(s, results) ==
  /\ sessions[s].pc = "send"
  /\ onResults(results)
  /\ AfterSend(s)
  /\ UNCHANGED <<page, photos, cameraPermission, gestureEnabled, renderVars,
                 status, videoRef, handsRef, scripts>>
  /\ UNCHANGED otherVars

\* the cleanup function of the effect
Cleanup(s) ==
  /\ sessions' = [sessions EXCEPT ![s] =
       Session(IF sessions[s].pc = "raf" THEN "returned" ELSE sessions[s].pc,
               FALSE,
               IF sessions[s].stream = "live" THEN "stopped" ELSE sessions[s].stream)]
  /\ videoRef' = 0
  /\ handsRef' = 0
  /\ UNCHANGED <<status, scripts>>

\* the effect body: a new session starts with initMediaPipe()
StartSession ==
  /\ sessions' = Append(sessions, Session(LoadPc(1), TRUE, "none"))
  /\ scripts' = ScriptsOnLoad(1)
  /\ status' = "loading-mediapipe"
  /\ UNCHANGED <<videoRef, handsRef>>

\* The identity of onGestureChange differs between the last render and one
\* with mode ts and ph photos: the Toggle page's handleGestureChange is a
\* useCallback with dependencies [treeState, photos.length], the Index
\* page's has none.
CallbackChanged(ts, ph) ==
  page = "Toggle" /\ (ts # treeStateRef \/ ph # photosRef)

\* the "ref" hook's effect has the dependencies [enabled, onResults] with a
\* stable onResults; in the "deps" hook onResults changes with onGestureChange
EffectDepsChanged(ts, ph) == hookVariant = "deps" /\ CallbackChanged(ts, ph)

\* the effect re-runs while enabled: the cleanup of the last run, then the
\* effect body
Restart ==
  /\ Len(sessions) < MaxSessions
  /\ LET s == Len(sessions)
         cleaned == [sessions EXCEPT ![s] =
           Session(IF sessions[s].pc = "raf" THEN "returned" ELSE sessions[s].pc,
                   FALSE,
                   IF sessions[s].stream = "live" THEN "stopped"
                   ELSE sessions[s].stream)]
     IN sessions' = Append(cleaned, Session(LoadPc(1), TRUE, "none"))
  /\ videoRef' = 0
  /\ handsRef' = 0
  /\ scripts' = ScriptsOnLoad(1)
  /\ status' = "loading-mediapipe"

\* ------------------------------------------------------------------ render
\* One render of the page component, with its effects, that sees the mode ts,
\* the photo count ph and the hook's `enabled` hk: the refs and the props of
\* the fallback are refreshed, and the hook's effect is cleaned up or re-run
\* when `enabled` changed.
RenderOf(ts, ph, hk) ==
  /\ treeStateRef' = ts
  /\ photosRef' = ph
  /\ mouseFallback' = [enabled |-> ~state.isTracking, currentState |-> ts]
  /\ effectEnabled' = hk
  /\ IF hk /\ ~effectEnabled THEN StartSession
     ELSE IF ~hk /\ effectEnabled THEN Cleanup(Len(sessions))
     ELSE IF hk /\ EffectDepsChanged(ts, ph) THEN Restart
     ELSE UNCHANGED sessionVars

\* The render React schedules after state updates made outside an event
\* handler (a frame result, a settled promise, a file read). Updates made in
\* a click or double-click handler are rendered before the next event, so
\* those handlers below include their render.
Render ==
  /\ ~Rendered
  /\ RenderOf(treeState, photos, HookEnabled)
  /\ UNCHANGED <<page, sceneVars, photos, cameraPermission, gestureEnabled, hookVars>>
  /\ UNCHANGED otherVars

\* ------------------------------------------------------------ page handlers
\* the click on the permission button: handleRequestCamera up to its await
RequestCamera ==
  /\ page = "Index"
  /\ cameraPermission = "prompt"
  /\ cameraPermission' = "requesting"
  /\ RenderOf(treeState, photos, FALSE)
  /\ UNCHANGED <<page, sceneVars, photos, gestureEnabled, hookVars>>
  /\ UNCHANGED otherVars

\* handleRequestCamera after the await: the probe stream is stopped at once
CameraAnswer(granted) ==
  /\ page = "Index"
  /\ cameraPermission = "requesting"
  /\ cameraPermission' = IF granted THEN "granted" ELSE "denied"
  /\ UNCHANGED <<page, sceneVars, photos, gestureEnabled, renderVars, hookVars,
                 sessionVars>>
  /\ UNCHANGED otherVars

\* the click on the toggle button: setGestureEnabled(!gestureEnabled)
ToggleGesture ==
  /\ page = "Toggle"
  /\ gestureEnabled \/ Len(sessions) < MaxSessions
  /\ gestureEnabled' = ~gestureEnabled
  /\ RenderOf(treeState, photos, ~gestureEnabled)
  /\ UNCHANGED <<page, sceneVars, photos, cameraPermission, hookVars>>
  /\ UNCHANGED otherVars

\* PhotoUpload: the last file of handleFileChange is read; the n new photos
\* are appended to the photo list of the render that opened the file dialog
AddPhotos(n) ==
  /\ photosRef + n <= Min(12, MaxUploaded)
  /\ photos' = photosRef + n
  /\ UNCHANGED <<page, sceneVars, cameraPermission, gestureEnabled, renderVars,
                 hookVars, sessionVars>>
  /\ UNCHANGED otherVars

\* PhotoUpload: the click of handleRemovePhoto
RemovePhoto ==
  /\ photos > 0
  /\ photos' = photos - 1
  /\ RenderOf(treeState, photos - 1, HookEnabled)
  /\ UNCHANGED <<page, sceneVars, cameraPermission, gestureEnabled, hookVars>>
  /\ UNCHANGED otherVars

\* PhotoUpload: the click of handleClearAll
ClearPhotos ==
  /\ photos > 0
  /\ photos' = 0
  /\ RenderOf(treeState, 0, HookEnabled)
  /\ UNCHANGED <<page, sceneVars, cameraPermission, gestureEnabled, hookVars>>
  /\ UNCHANGED otherVars

\* ---------------------------------------------------------- pointer fallback
\* the mode a double-click asks for: Tree <-> Galaxy
Toggled(mode) == IF mode = "tree" THEN "galaxy" ELSE "tree"

\* the state change the page performs for the fallback: onStateChange is
\* setTreeState, and nothing else is passed to the fallback
onStateChange(mode) ==
  /\ treeState' = mode
  /\ UNCHANGED focusedPhotoIndex

\* useMouseFallback: a double-click while enabled toggles Tree <-> Galaxy
DoubleClick ==
  /\ mouseFallback.enabled
  /\ mouseFallback.currentState \in {"tree", "galaxy"}
  /\ onStateChange(Toggled(mouseFallback.currentState))
  /\ lastEvent' = [kind |-> "dblclick", from |-> treeState]
  /\ RenderOf(Toggled(mouseFallback.currentState), photos, HookEnabled)
  /\ UNCHANGED <<page, photos, cameraPermission, gestureEnabled,
                 state, lastGestureRef, thrown, callbackArg, lastFrame, run>>
  /\ UNCHANGED otherVars

\* ------------------------------------------------------ animated groups
\* One animated group on its own: ParticleSystem and OrnamentBalls tween the
\* shared number transitionRef.current.progress, KLineParticleSystem tweens
\* each element's position. One coordinate of one K-line element is followed,
\* on the scale of the progress: treePosition 0, galaxyPosition Unit.
Groups == {"particles", "ornaments", "kline"}

\* delay: Math.random() * 0.4 and duration: 1.8 + Math.random() * 0.6 of a
\* K-line tween, in animation frames of 0.1 s: the shortest and the longest
KLineTimings == {[delay |-> 0, duration |-> 18], [delay |-> 3, duration |-> 23]}

\* the delay and the duration a tween of the group can get
Timings(g) ==
  IF g = "particles" THEN {[delay |-> 0, duration |-> ParticleTweenFrames]}
  ELSE IF g = "ornaments" THEN {[delay |-> 0, duration |-> OrnamentTweenFrames]}
  ELSE KLineTimings

\* progress: state === 'tree' ? 0 : 1, and for a K-line element
\* state === 'tree' ? treePosition : galaxyPosition
TargetOf(mode) == IF mode = "tree" THEN 0 ELSE Unit

\* the eases of the tweens: GSAP's power2.inOut (cubic) and power3.out
\* (quartic) at k of d frames, in units of 1/10000
EaseOf(ease, k, d) ==
  IF ease = "power2.inOut"
  THEN IF 2 * k < d
       THEN (4 * Unit * k * k * k) \div (d * d * d)
       ELSE Unit - (4 * Unit * (d - k) * (d - k) * (d - k)) \div (d * d * d)
  ELSE LET q == (Unit * (d - k) * (d - k)) \div (d * d)
       IN Unit - (q * q) \div Unit

\* ease: 'power2.inOut' of the progress tweens, and of a K-line tween
\* state === 'tree' ? 'power2.inOut' : 'power3.out'
EaseFor(g, mode) ==
  IF g = "kline" /\ mode # "tree" THEN "power3.out" ELSE "power2.inOut"

\* gsap.to(target, {..., duration, delay, ease, onComplete}): a new tween at
\* the end of the root timeline; overwrite is left at its default, false, so
\* the tweens already running on the number go on
NewTween(g, mode, timing) ==
  [age |-> 0, delay |-> timing.delay, duration |-> timing.duration,
   target |-> TargetOf(mode),
   ease |-> EaseFor(g, mode), from |-> NoStart, onComplete |-> g # "kline"]

\* One tick of GSAP's root timeline on the tweens `ts` (in the order they
\* were created): a tween whose delay has passed records the number's value
\* as its start when it first renders, then writes its eased value; at its
\* end it writes its target, calls onComplete and leaves the timeline.
RECURSIVE RenderTweens(_, _, _, _)
RenderTweens(ts, value, transitioning, kept) ==
  IF ts = <<>>
  THEN [tweened |-> value, tweens |-> kept, isTransitioningRef |-> transitioning]
  ELSE LET t == Head(ts)
           age == t.age + 1
           k == age - t.delay
           from == IF t.from = NoStart THEN value ELSE t.from
       IN IF k < 1
          THEN RenderTweens(Tail(ts), value, transitioning,
                            Append(kept, [t EXCEPT !.age = age]))
          ELSE IF k >= t.duration
          THEN RenderTweens(Tail(ts), t.target,
                            IF t.onComplete THEN FALSE ELSE transitioning, kept)
          ELSE RenderTweens(Tail(ts),
                            from + ((t.target - from) * EaseOf(t.ease, k, t.duration)) \div Unit,
                            transitioning,
                            Append(kept, [t EXCEPT !.age = age, !.from = from]))

\* the refs of the group and what the last useFrame call did
Anim ==
  [tweened |-> tweened, tweens |-> tweens,
   isTransitioningRef |-> isTransitioningRef,
   lastProgressRef |-> lastProgressRef, frameCountRef |-> frameCountRef,
   drawn |-> drawn]

\* GSAP's ticker callback
GsapTick(a) ==
  LET r == RenderTweens(a.tweens, a.tweened, a.isTransitioningRef, <<>>)
  IN [a EXCEPT !.tweened = r.tweened, !.tweens = r.tweens,
               !.isTransitioningRef = r.isTransitioningRef]

Abs(x) == IF x < 0 THEN -x ELSE x

\* the group's useFrame callback. ParticleSystem: when idle, only every 3rd
\* frame updates the instances; OrnamentBalls: an idle frame returns before
\* lastProgressRef is written; KLineParticleSystem: every frame draws the
\* element at its tweened position.
useFrame(g, a) ==
  LET progress == a.tweened
      count == (a.frameCountRef + 1) % IdleEvery
      isIdle == ~a.isTransitioningRef
                  /\ Abs(progress - a.lastProgressRef) < IdleEpsilon
  IN IF g = "particles"
     THEN [a EXCEPT !.frameCountRef = count, !.lastProgressRef = progress,
                    !.drawn = [progress |-> progress,
                               updated |-> ~(isIdle /\ count # 0)]]
     ELSE IF g = "ornaments"
     THEN IF isIdle
          THEN [a EXCEPT !.drawn = [progress |-> progress, updated |-> FALSE]]
          ELSE [a EXCEPT !.lastProgressRef = progress,
                         !.drawn = [progress |-> progress, updated |-> TRUE]]
     ELSE [a EXCEPT !.drawn = [progress |-> progress, updated |-> TRUE]]

\* the untouched rest of the model
TweenFrame ==
  UNCHANGED <<page, sceneVars, photos, cameraPermission, gestureEnabled,
              renderVars, hookVars, sessionVars, classifierVars, cameraVars,
              positionVars,
              smoothingVars,
              variantVars,
              cardVars,
              debugVars>>

\* One display frame: the two requestAnimationFrame callbacks, GSAP's ticker
\* and the renderer's loop with the useFrame callbacks, in the order in which
\* they were requested.
AnimationFrame ==
  /\ LET a == IF tickerFirst THEN useFrame(group, GsapTick(Anim))
              ELSE GsapTick(useFrame(group, Anim))
     IN /\ tweened' = a.tweened
        /\ tweens' = a.tweens
        /\ isTransitioningRef' = a.isTransitioningRef
        /\ lastProgressRef' = a.lastProgressRef
        /\ frameCountRef' = a.frameCountRef
        /\ drawn' = a.drawn
  /\ UNCHANGED <<group, stateProp, changes, tickerFirst>>
  /\ TweenFrame

\* the effect with dependency [state], run by the mount and by each render
\* with a changed `state` prop
StateEffect(g, mode, timing) ==
  /\ isTransitioningRef' = (g # "kline")
  /\ tweens' = Append(tweens, NewTween(g, mode, timing))

\* a render of the group with a changed `state` prop, and its effect
StateChange(mode) ==
  /\ changes < MaxChanges
  /\ mode # stateProp
  /\ stateProp' = mode
  /\ changes' = changes + 1
  /\ \E timing \in Timings(group) : StateEffect(group, mode, timing)
  /\ UNCHANGED <<group, tickerFirst, tweened, lastProgressRef, frameCountRef, drawn>>
  /\ TweenFrame

\* ----------------------------------------------------- frame positions
\* The position a useFrame call computes for one element, one coordinate (y),
\* everything in units of 1/10000.
Clamp(x, lo, hi) == IF x < lo THEN lo ELSE IF x > hi THEN hi ELSE x

\* the stagger without the clamp to [0, 1]
Staggered_NoClamp(g, progress, delay) ==
  IF g = "particles"
  THEN (progress * 15 - delay * 5) \div 10
  ELSE (progress * 13 - delay * 3) \div 10

\* the stagger with the gain left out: progress - delay * m
Staggered_NoGain(g, progress, delay) ==
  IF g = "particles"
  THEN Clamp((progress * 10 - delay * 5) \div 10, 0, Unit)
  ELSE Clamp((progress * 10 - delay * 3) \div 10, 0, Unit)

\* Math.max(0, Math.min(1, progress * 1.5 - p.delay * 0.5)) in ParticleSystem,
\* Math.max(0, Math.min(1, progress * 1.3 - ornament.delay * 0.3)) in
\* OrnamentBalls
Staggered(g, progress, delay) ==
  IF g = "particles"
  THEN Clamp((progress * 15 - delay * 5) \div 10, 0, Unit)
  ELSE Clamp((progress * 13 - delay * 3) \div 10, 0, Unit)

\* staggered * staggered * (3 - 2 * staggered)
Smooth(staggered) ==
  (((staggered * staggered) \div Unit) * (3 * Unit - 2 * staggered)) \div Unit

\* p.treePos[1] + (p.galaxyPos[1] - p.treePos[1]) * smooth
Interpolated(e, progress) ==
  e.treePos
    + ((e.galaxyPos - e.treePos) * Smooth(Staggered(e.group, progress, e.delay)))
        \div Unit

\* Math.sin(timeRef.current * p.speed + p.phase) * 0.02 in ParticleSystem;
\* OrnamentBalls adds nothing
Breathe(e) ==
  IF e.group = "particles" THEN (e.sine * BreatheAmplitude) \div Unit ELSE 0

\* dummy.position.set(x, y + breathe, z)
FramePosition(e, progress) ==
  [smooth |-> Smooth(Staggered(e.group, progress, e.delay)),
   interpolated |-> Interpolated(e, progress), breathe |-> Breathe(e),
   position |-> Interpolated(e, progress) + Breathe(e), done |-> TRUE]

\* ------------------------------------------------------------------ camera
\* const baseDistance = state === 'tree' ? 12 : 18
BaseDistance(mode) == IF mode = "tree" THEN 12 ELSE 18

\* CameraController's useFrame callback. `state` and `handPosition` are the
\* props of the last render: the mode the page had then, and a hand position
\* exactly when the hook was tracking then.
CameraFrame ==
  LET mode == treeStateRef
      handPosition == ~mouseFallback.enabled
      entering == mode = "tree" /\ prevStateRef # "tree"
      leaving == mode # "tree" /\ prevStateRef = "tree"
      delay == IF entering THEN AssemblyDelayFrames ELSE transitionDelayRef
      delayLeft == IF delay > 0 THEN delay - 1 ELSE delay
      ribbonTime == IF entering THEN 0 ELSE ribbonTimeRef
      atStar == IF entering \/ leaving THEN FALSE ELSE isAtStarRef
      following == mode = "tree" /\ delayLeft <= 0
      climbing == following /\ ~atStar
      arrived == climbing /\ ribbonTime + 1 >= RibbonFrames
  IN /\ prevStateRef' = mode
     /\ transitionDelayRef' = delayLeft
     /\ ribbonTimeRef' = IF climbing THEN Min(ribbonTime + 1, RibbonFrames)
                         ELSE ribbonTime
     /\ isAtStarRef' = (atStar \/ arrived)
     /\ starFocused' = IF arrived THEN "true"
                       ELSE IF entering \/ leaving THEN "false"
                       ELSE starFocused
     /\ cameraTarget' =
          [kind |-> IF climbing THEN "ribbon"
                    ELSE IF following THEN "star"
                    ELSE IF handPosition /\ mode = "galaxy" THEN "hand"
                    ELSE "orbit",
           baseDistance |-> BaseDistance(mode)]
     /\ seenEvent' = lastEvent
     /\ UNCHANGED <<page, sceneVars, photos, cameraPermission, gestureEnabled,
                    renderVars, hookVars, sessionVars, classifierVars, tweenVars,
                    positionVars,
                    smoothingVars,
                    variantVars,
                    cardVars,
                    debugVars>>

\* ------------------------------------------------------ camera smoothing
\* The last lines of CameraController's useFrame for a fixed target, one
\* coordinate (x). `delta` is counted in half-lives of the decay: ln 2 / 3
\* seconds where the factor is 1 - Math.exp(-3 * delta), ln 2 / 4 seconds
\* where it is 1 - Math.exp(-4 * delta), so that Math.exp(-k * delta) is
\* 2 to the power -delta. The third controller uses the factor 0.02 in every
\* frame.
Controllers == {"decay3", "decay4", "fixed"}

RECURSIVE Pow2(_)
Pow2(n) == IF n = 0 THEN 1 ELSE 2 * Pow2(n - 1)

\* positionRef.current.x += (targetX - positionRef.current.x) * smoothFactor
\* with smoothFactor = 1 - Math.exp(-3 * delta) (or -4), and
\* positionRef.current.x += (targetX - positionRef.current.x) * 0.02
Smoothed(c, x, target, delta) ==
  IF c = "fixed"
  THEN x + ((target - x) * 2) \div 100
  ELSE x + ((target - x) * (Pow2(delta) - 1)) \div Pow2(delta)

\* one frame of duration delta
SmoothFrame(delta) ==
  /\ elapsed + delta <= totalDelta
  /\ positionRef' = Smoothed(controller, positionRef, targetX, delta)
  /\ elapsed' = elapsed + delta
  /\ UNCHANGED <<controller, startX, targetX, totalDelta>>
  /\ UNCHANGED <<page, sceneVars, photos, cameraPermission, gestureEnabled,
                 renderVars, hookVars, sessionVars, classifierVars, tweenVars,
                 cameraVars, positionVars, variantVars, cardVars, debugVars>>

\* ------------------------------------------------------------ specification
\* The scene: both pages, tracking switched on once, initialization
\* succeeding, every kind of sensor frame, photo uploads, the pointer fallback
Next ==
  \/ Render
  \/ RequestCamera
  \/ CameraAnswer(TRUE)
  \/ (~effectEnabled /\ ToggleGesture)
  \/ AddPhotos(1)
  \/ RemovePhoto
  \/ ClearPhotos
  \/ DoubleClick
  \/ \E s \in SessionIds : LoadScript(s, TRUE)
  \/ \E s \in SessionIds : GetUserMedia(s, TRUE)
  \/ \E s \in SessionIds : VideoStart(s, "ok")
  \/ \E s \in SessionIds : ProcessFrame(s)
  \/ \E s \in SessionIds, results \in Results : SendComplete(s, results)

Spec == Init /\ [][Next]_vars

\* The session lifecycle: tracking switched on and off, every outcome of
\* every step of the initialization, frames with and without a hand
LifecycleResults == {NoHand, <<FistHand>>, <<PinchHand>>}

LifecycleNext ==
  \/ Render
  \/ RequestCamera
  \/ \E granted \in BOOLEAN : CameraAnswer(granted)
  \/ ToggleGesture
  \/ DoubleClick
  \/ \E s \in SessionIds, ok \in BOOLEAN : LoadScript(s, ok)
  \/ \E s \in SessionIds, ok \in BOOLEAN : GetUserMedia(s, ok)
  \/ \E s \in SessionIds, outcome \in {"ok", "rejected", "no dimensions"} : VideoStart(s, outcome)
  \/ \E s \in SessionIds : ProcessFrame(s)
  \/ \E s \in SessionIds, results \in LifecycleResults : SendComplete(s, results)

LifecycleSpec == Init /\ [][LifecycleNext]_vars

\* The classifier on its own: detectGesture applied to one landmark set
\* thumb-tip offsets from the index tip: 0.05 is a pinch, 0.06 is not
ThumbOffsets == {0, 5, 6, 40}
FullHands ==
  {Hand(ie, me, re, pe, dx, 40) :
     ie \in BOOLEAN, me \in BOOLEAN, re \in BOOLEAN, pe \in BOOLEAN,
     dx \in ThumbOffsets}
ShortLengths == {0, 5, 20}
ShortHands ==
  {Truncated(h, n) : h \in {FistHand, OpenHand, PinchHand}, n \in ShortLengths}
    \cup {Truncated(WithHole(OpenHand, 4), 20)}
HoledHands == {WithHole(h, i) : h \in {PinchHand, OpenHand}, i \in {4, 12}}
ClassifyInputs == {NullLandmarks} \cup FullHands \cup ShortHands \cup HoledHands

ClassifyInit ==
  /\ SceneInit
  /\ landmarkSet \in ClassifyInputs
  /\ classified = Unclassified
  /\ TweenIdle
  /\ CameraInit
  /\ PositionIdle
  /\ SmoothingIdle
  /\ VariantIdle
  /\ CardIdle
  /\ DebugIdle

\* one call detectGesture(landmarks)
Classify ==
  /\ classified = Unclassified
  /\ classified' = detectGesture(landmarkSet)
  /\ UNCHANGED <<page, sceneVars, photos, cameraPermission, gestureEnabled,
                 renderVars, hookVars, sessionVars, landmarkSet, tweenVars,
                 cameraVars, positionVars, smoothingVars, variantVars, cardVars, debugVars>>

ClassifyNext == Classify

ClassifySpec == ClassifyInit /\ [][ClassifyNext]_vars

\* An animated group on its own, from its mount in Tree: mode changes at
\* every timing, display frames
TweenInit ==
  /\ SceneInit
  /\ ClassifierIdle
  /\ group \in Groups
  /\ stateProp = "tree"
  /\ changes = 0
  /\ tickerFirst \in BOOLEAN
  /\ tweened = 0
  /\ \E timing \in Timings(group) : tweens = <<NewTween(group, "tree", timing)>>
  /\ isTransitioningRef = (group # "kline")
  /\ lastProgressRef = 0
  /\ frameCountRef = 0
  /\ drawn = NotDrawn
  /\ CameraInit
  /\ PositionIdle
  /\ SmoothingIdle
  /\ VariantIdle
  /\ CardIdle
  /\ DebugIdle

TweenNext ==
  \/ AnimationFrame
  \/ \E mode \in TreeStates : StateChange(mode)

TweenSpec == TweenInit /\ [][TweenNext]_vars

\* The scene and its camera: tracking switched on once, initialization
\* succeeding, frames with each gesture, the pointer fallback, camera frames
CameraResults == {NoHand, <<FistHand>>, <<OpenHand>>, <<PinchHand>>}

CameraNext ==
  \/ Render
  \/ RequestCamera
  \/ CameraAnswer(TRUE)
  \/ (~effectEnabled /\ ToggleGesture)
  \/ DoubleClick
  \/ \E s \in SessionIds : LoadScript(s, TRUE)
  \/ \E s \in SessionIds : GetUserMedia(s, TRUE)
  \/ \E s \in SessionIds : VideoStart(s, "ok")
  \/ \E s \in SessionIds : ProcessFrame(s)
  \/ \E s \in SessionIds, results \in CameraResults : SendComplete(s, results)
  \/ CameraFrame

CameraSpec == Init /\ [][CameraNext]_vars

\* The frame position on its own: one element, one progress, one frame.
\* Delays cover [0, 1), the sine covers [-1, 1].
ElementDelays == {0, 5000, 9999}
TreePositions == {-35000, 0, 12000}
GalaxyPositions == {-60000, 45000}
Sines == {-Unit, 0, Unit}
Progresses == {0, 2500, 5000, 7500, Unit}
Elements ==
  [group : {"particles", "ornaments"}, delay : ElementDelays,
   treePos : TreePositions, galaxyPos : GalaxyPositions, sine : Sines]

PositionInit ==
  /\ SceneInit
  /\ ClassifierIdle
  /\ TweenIdle
  /\ CameraInit
  /\ SmoothingIdle
  /\ VariantIdle
  /\ CardIdle
  /\ DebugIdle
  /\ element \in Elements
  /\ globalProgress \in Progresses
  /\ framed = NotFramed

\* the body of the useFrame loop for the element
ComputeFrame ==
  /\ ~framed.done
  /\ framed' = FramePosition(element, globalProgress)
  /\ UNCHANGED <<page, sceneVars, photos, cameraPermission, gestureEnabled,
                 renderVars, hookVars, sessionVars, classifierVars, tweenVars,
                 cameraVars, smoothingVars, variantVars, cardVars, debugVars,
                 element, globalProgress>>

PositionNext == ComputeFrame

PositionSpec == PositionInit /\ [][PositionNext]_vars

\* The camera smoothing on its own: a camera position, a fixed target, a
\* stretch of time cut into frames in every way. Positions are in units of
\* 1/10000, far enough apart for the steps to be exact.
CameraXs == {0, 160000}
TargetXs == {-320000, 160000, 480000}

SmoothingInit ==
  /\ SceneInit
  /\ ClassifierIdle
  /\ TweenIdle
  /\ CameraInit
  /\ PositionIdle
  /\ VariantIdle
  /\ CardIdle
  /\ DebugIdle
  /\ controller \in Controllers
  /\ startX \in CameraXs
  /\ positionRef = startX
  /\ targetX \in TargetXs
  /\ totalDelta \in 1..MaxDelta
  /\ elapsed = 0

SmoothingNext == \E delta \in 1..MaxDelta : SmoothFrame(delta)

SmoothingSpec == SmoothingInit /\ [][SmoothingNext]_vars

\* The scene with either hook: the hook of src/src/hooks/useHandGesture.ts
\* or the one whose onResults depends on the callback
CallbackInit ==
  /\ SceneInit
  /\ ClassifierIdle
  /\ TweenIdle
  /\ CameraInit
  /\ PositionIdle
  /\ SmoothingIdle
  /\ CardIdle
  /\ DebugIdle
  /\ hookVariant \in {"ref", "deps"}

CallbackSpec == CallbackInit /\ [][Next]_vars

\* One PhotoCardMesh on its own. The component returns null while `texture`
\* is unset, so meshRef.current is the group exactly when `texture` is set.
\* targetPos and targetScale of the animation effect
CardTarget(props) ==
  [position |-> IF props.isFocused THEN "near"
                ELSE IF props.state = "tree" THEN "tree" ELSE "galaxy",
   scale |-> IF props.isFocused THEN "5" ELSE "0.4"]

\* a render with a new `state` or `isFocused`, and the animation effect
\* (dependencies [state, isFocused, treePosition, galaxyPosition]) after it
CardRender(st, focused) ==
  /\ cardProps # [state |-> st, isFocused |-> focused]
  /\ cardProps' = [state |-> st, isFocused |-> focused]
  /\ cardTweens' = IF texture THEN CardTarget(cardProps') ELSE cardTweens
  /\ UNCHANGED <<texture, cardPosition, cardScale>>
  /\ UNCHANGED <<page, sceneVars, photos, cameraPermission, gestureEnabled,
                 renderVars, hookVars, sessionVars, classifierVars, tweenVars,
                 cameraVars, positionVars, smoothingVars, variantVars, debugVars>>

\* the loader's onLoad or onError: setTexture, and the render that mounts
\* <group position={treePosition} scale={[0.5, 0.5, 1]}>; no dependency of
\* the animation effect changed, so it does not run
TextureLoaded ==
  /\ ~texture
  /\ texture' = TRUE
  /\ cardPosition' = "tree"
  /\ cardScale' = "0.5"
  /\ UNCHANGED <<cardProps, cardTweens>>
  /\ UNCHANGED <<page, sceneVars, photos, cameraPermission, gestureEnabled,
                 renderVars, hookVars, sessionVars, classifierVars, tweenVars,
                 cameraVars, positionVars, smoothingVars, variantVars, debugVars>>

\* GSAP's ticker: the scale tween (0.5 s or 0.7 s) ends before the position
\* tween (0.6 s or 0.8 s) started with it
CardFrame ==
  /\ cardTweens # NoTweens
  /\ IF cardTweens.scale # "-"
     THEN /\ cardScale' = cardTweens.scale
          /\ cardPosition' = "moving"
          /\ cardTweens' = [cardTweens EXCEPT !.scale = "-"]
     ELSE /\ cardPosition' = cardTweens.position
          /\ cardTweens' = NoTweens
          /\ UNCHANGED cardScale
  /\ UNCHANGED <<cardProps, texture>>
  /\ UNCHANGED <<page, sceneVars, photos, cameraPermission, gestureEnabled,
                 renderVars, hookVars, sessionVars, classifierVars, tweenVars,
                 cameraVars, positionVars, smoothingVars, variantVars, debugVars>>

\* the card after its first render, in any mode, focused or not: the
\* animation effect of that render found meshRef.current null
CardInit ==
  /\ SceneInit
  /\ ClassifierIdle
  /\ TweenIdle
  /\ CameraInit
  /\ PositionIdle
  /\ SmoothingIdle
  /\ VariantIdle
  /\ DebugIdle
  /\ cardProps \in [state : TreeStates, isFocused : BOOLEAN]
  /\ texture = FALSE
  /\ cardPosition = "-"
  /\ cardScale = "-"
  /\ cardTweens = NoTweens

CardNext ==
  \/ \E st \in TreeStates, focused \in BOOLEAN : CardRender(st, focused)
  \/ TextureLoaded
  \/ CardFrame

CardSpec == CardInit /\ [][CardNext]_vars

\* CameraDebug on its own, as the page mounts it: `enabled` is
\* cameraPermission === 'granted', which never reverts; the minimize and
\* close buttons exist while the preview is rendered.
\* the effect's early-return condition, negated
PreviewActive(p) == p.enabled /\ p.isVisible /\ ~p.isMinimized

\* streamRef.current.getTracks().forEach(track => track.stop())
StopStream ==
  IF streamRef = 0 THEN streams ELSE [streams EXCEPT ![streamRef] = "stopped"]

\* the props and state a click or the permission can lead to
DebugChanges ==
  {[debugProps EXCEPT !.enabled = TRUE]}
    \cup (IF debugProps.enabled /\ debugProps.isVisible
          THEN {[debugProps EXCEPT !.isVisible = FALSE],
                [debugProps EXCEPT !.isMinimized = ~debugProps.isMinimized]}
          ELSE {})

\* a render with changed `enabled`, isVisible or isMinimized: the cleanup of
\* the last effect (it has one when it started a camera), then the effect
DebugRender(p) ==
  LET stopping == PreviewActive(debugProps) \/ ~PreviewActive(p)
      kept == IF stopping THEN StopStream ELSE streams
  IN /\ p # debugProps
     /\ PreviewActive(p) => Len(streams) < MaxStreams
     /\ debugProps' = p
     /\ streamRef' = IF stopping THEN 0 ELSE streamRef
     /\ streams' = IF PreviewActive(p) THEN Append(kept, "pending") ELSE kept
     /\ UNCHANGED <<page, sceneVars, photos, cameraPermission, gestureEnabled,
                    renderVars, hookVars, sessionVars, classifierVars, tweenVars,
                    cameraVars, positionVars, smoothingVars, variantVars, cardVars>>

\* startCamera after its await: getUserMedia resolved or rejected
DebugGetUserMedia(i, ok) ==
  /\ streams[i] = "pending"
  /\ streams' = [streams EXCEPT ![i] = IF ok THEN "live" ELSE "failed"]
  /\ streamRef' = IF ok THEN i ELSE streamRef
  /\ UNCHANGED debugProps
  /\ UNCHANGED <<page, sceneVars, photos, cameraPermission, gestureEnabled,
                 renderVars, hookVars, sessionVars, classifierVars, tweenVars,
                 cameraVars, positionVars, smoothingVars, variantVars, cardVars>>

DebugNext ==
  \/ \E p \in DebugChanges : DebugRender(p)
  \/ \E i \in 1..Len(streams), ok \in BOOLEAN : DebugGetUserMedia(i, ok)

DebugSpec == Init /\ [][DebugNext]_vars

\* ------------------------------------------------------------------ claims
\* C1: in every reachable state focusedPhotoIndex is non-null if and only if
\* treeState is 'focus'
C1_FocusIffIndex == (focusedPhotoIndex # NoIndex) <=> (treeState = "focus")

\* the photo count the pinch branch is meant to use: the uploaded photos, or
\* the default count when none are uploaded
UploadedOrDefault == IF photos > 0 THEN photos ELSE Capacity(page)

\* C2: from every mode a Fist event sets the mode to Tree and an Open event
\* sets it to Galaxy, and focusedPhotoIndex is null afterwards
C2_FistOpenForce ==
  [][\A s \in SessionIds, r \in Results :
       SendComplete(s, r) =>
         /\ callbackArg' = "fist" =>
              (treeState' = "tree" /\ focusedPhotoIndex' = NoIndex)
         /\ callbackArg' = "open" =>
              (treeState' = "galaxy" /\ focusedPhotoIndex' = NoIndex)]_vars

\* a Fist event and an Open event that found the scene in Focus
C2_Witness ==
  /\ lastEvent \in {[kind |-> "fist", from |-> "focus"], [kind |-> "open", from |-> "focus"]}
  /\ callbackArg = lastEvent.kind

\* C3: a Pinch event received while the mode is Galaxy sets the mode to Focus
\* and focusedPhotoIndex to some i with 0 <= i < min(photoCount, capacity)
C3_PinchInGalaxy ==
  [][\A s \in SessionIds, r \in Results :
       (SendComplete(s, r) /\ callbackArg' = "pinch" /\ treeState = "galaxy") =>
         /\ treeState' = "focus"
         /\ focusedPhotoIndex' \in 0 .. (Min(UploadedOrDefault, Capacity(page)) - 1)]_vars

C5_DoubleClickToggles ==
  [][DoubleClick =>
       /\ focusedPhotoIndex' = NoIndex
       /\ treeState \in {"tree", "galaxy"} => treeState' = Toggled(treeState)]_vars

\* C6: N > 1 consecutive tracked frames with one classification invoke the
\* callback exactly once in that run
C6_ExactlyOncePerRun == run.len >= 2 => run.emits = 1

\* C6 (amended): in a run of consecutive tracked frames with one
\* classification the callback is invoked at most once, on the first frame,
\* and exactly when the symbol differs from the last emitted one
\* (lastGestureRef, initially 'none')
C6_OncePerChange ==
  [][\A s \in SessionIds, r \in Results :
       (SendComplete(s, r) /\ lastFrame' # NoFrame) =>
         IF lastFrame' # lastFrame
         THEN /\ run'.emits = IF lastFrame' # lastGestureRef THEN 1 ELSE 0
              /\ (callbackArg' = lastFrame') <=> (lastFrame' # lastGestureRef)
              /\ (callbackArg' = NoCallback) <=> (lastFrame' = lastGestureRef)
         ELSE /\ run'.emits = run.emits
              /\ run'.emits <= 1
              /\ callbackArg' = NoCallback]_vars

\* a run of two or more fist frames with its one callback
C6_Witness == run.len >= 2 /\ run.emits = 1 /\ lastFrame = "fist"

\* gesture tracking is inactive: permission not granted, tracking switched
\* off or torn down, or no hand tracked
TrackingInactive ==
  \/ page = "Index" /\ cameraPermission # "granted"
  \/ page = "Toggle" /\ ~gestureEnabled
  \/ \A s \in SessionIds : ~sessions[s].mounted
  \/ ~state.isTracking

\* C7: whenever gesture tracking is inactive the pointer fallback is enabled
\* (in the props of the render that shows that state)
C7_FallbackWhenInactive ==
  (Rendered /\ TrackingInactive) => mouseFallback.enabled

\* C8: once a session is disabled its frame loop requests no further
\* animation frame, and every camera stream it acquired is stopped
C8_NoWorkAfterDisable ==
  [][\A s \in SessionIds :
       /\ (~sessions[s].mounted /\ sessions[s].pc # "raf") => sessions'[s].pc # "raf"
       /\ ~sessions'[s].mounted => sessions'[s].stream # "live"]_vars

\* the session of the hook as last enabled ended in the catch block
CurrentSessionFailed ==
  /\ effectEnabled
  /\ HookEnabled
  /\ sessions # <<>>
  /\ sessions[Len(sessions)].pc = "failed"

\* C9: after a denied permission or a failed initialization the failure is
\* recorded (cameraPermission = 'denied' or status = 'error: ...'), isTracking
\* is false and the pointer fallback is enabled
C9_FailureDegradesToFallback ==
  (cameraPermission = "denied" \/ CurrentSessionFailed) =>
    /\ cameraPermission = "denied" \/ status \in ErrorStatuses
    /\ ~state.isTracking
    /\ Rendered => mouseFallback.enabled

\* a landmark array with fewer than 21 points or with a missing point
IsMalformed(lm) ==
  \/ lm.null
  \/ Len(lm.pts) < LandmarkCount
  \/ \E i \in 0 .. (LandmarkCount - 1) : ~At(lm, i).def

\* C10: a frame with a malformed landmark set is handled as a normal
\* no-gesture frame: classified 'none', and no exception is raised
C10_MalformedIsNoGesture ==
  [][\A s \in SessionIds, r \in Results :
       (SendComplete(s, r) /\ r # NoHand /\ IsMalformed(r[1])) =>
         /\ ~thrown'
         /\ state'.gesture = "none"
         /\ state'.isTracking]_vars

\* C11: for every landmark set that is absent or has fewer than 21 points
\* detectGesture returns 'none'
C11_ShortIsNone ==
  (classified # Unclassified
     /\ (landmarkSet.null \/ Len(landmarkSet.pts) < LandmarkCount))
    => classified = "none"

\* a 20-point array classified
C11_Witness ==
  /\ classified = "none"
  /\ ~landmarkSet.null
  /\ Len(landmarkSet.pts) = LandmarkCount - 1

\* the thumb tip (4) and the index tip (8) are less than 0.06 apart
ThumbIndexClose ==
  /\ ~landmarkSet.null
  /\ Len(landmarkSet.pts) = LandmarkCount
  /\ LET thumbTip == landmarkSet.pts[5]
         indexTip == landmarkSet.pts[9]
     IN /\ thumbTip.def /\ indexTip.def
        /\ (thumbTip.x - indexTip.x) * (thumbTip.x - indexTip.x)
             + (thumbTip.y - indexTip.y) * (thumbTip.y - indexTip.y)
             + (thumbTip.z - indexTip.z) * (thumbTip.z - indexTip.z)
             < PinchThresholdSq

\* C12: a 21-point landmark set whose thumb-tip to index-tip distance is
\* below 0.06 is classified 'pinch', whatever the other fingers do
C12_PinchPrecedence ==
  (classified # Unclassified /\ ThumbIndexClose) => classified = "pinch"

\* a pinch with all four fingers extended
C12_Witness ==
  /\ classified = "pinch"
  /\ landmarkSet = Hand(TRUE, TRUE, TRUE, TRUE, 5, 40)

\* the number of extended fingers among the four flags
FlagCount(ie, me, re, pe) ==
  (IF ie THEN 1 ELSE 0) + (IF me THEN 1 ELSE 0) + (IF re THEN 1 ELSE 0)
    + (IF pe THEN 1 ELSE 0)

\* the classification C13 states for n extended fingers
ByCount(n) == IF n >= 3 THEN "open" ELSE IF n <= 1 THEN "fist" ELSE "none"

C14_IndexOnlyIsPointing ==
  \A dx \in ThumbOffsets :
    (classified # Unclassified /\ dx * dx >= PinchThresholdSq
       /\ landmarkSet = Hand(TRUE, FALSE, FALSE, FALSE, dx, 40))
      => classified = "pointing"

\* C15: the scene starts in Tree with a null index, and treeState changes
\* only in a step that processes a gesture-change event or a double-click
\* (not in a render, an unchanged-symbol frame, a tracking loss or an upload)
C15_ModeChangesOnlyOnEvents ==
  /\ treeState = "tree" /\ focusedPhotoIndex = NoIndex
  /\ [][treeState' # treeState =>
          \/ DoubleClick
          \/ \E s \in SessionIds, r \in Results :
               SendComplete(s, r) /\ callbackArg' # NoCallback]_vars

\* Focus entered by a pinch event and kept by the next pinch frame
C15_Witness ==
  /\ treeState = "focus"
  /\ lastFrame = "pinch"
  /\ run.len >= 2

\* C16: after each processed sensor frame isTracking is true exactly when
\* the frame contained a hand; a no-hand frame sets handPosition to null, a
\* frame with a hand sets it non-null
C16_TrackingFollowsFrames ==
  [][\A s \in SessionIds, r \in Results :
       SendComplete(s, r) =>
         IF r = NoHand
         THEN ~state'.isTracking /\ state'.handPosition = NoPosition
         ELSE state'.isTracking /\ state'.handPosition # NoPosition]_vars

\* C17: once the tweens of an element have all ended (nothing will write its
\* animated position until the next mode change), the position equals the
\* layout position of the current mode, whatever the timing of the changes
C17_SettlesAtLayout ==
  tweens = <<>> => tweened = TargetOf(stateProp)

\* C20: in every display frame whose useFrame call reads a progress that has
\* not reached the target of the current mode, the call updates the
\* instances of the group (the idle frame-skip does not apply)
C20_NoSkipInFlight ==
  [][(AnimationFrame /\ drawn'.progress # TargetOf(stateProp))
       => drawn'.updated]_vars

\* the position tolerance of C18, 1e-3
PositionEpsilon == Unit \div 1000

\* C18 as stated: for every element and delay in [0,1) the position computed
\* for the frame at progress 0 equals the tree position and at progress 1
\* the galaxy position, within 1e-3, for both stagger settings
C18_FrameAtEndpoints ==
  framed.done =>
    /\ globalProgress = 0
         => Abs(framed.position - element.treePos) <= PositionEpsilon
    /\ globalProgress = Unit
         => Abs(framed.position - element.galaxyPos) <= PositionEpsilon

\* C18, amended: the interpolated position (the frame position less the
\* breathing offset) at progress 0 equals the tree position and at progress
\* 1 the galaxy position, within 1e-3, for both stagger settings; the frame
\* position differs from it by the breathing offset, at most 0.02
C18_InterpolatedAtEndpoints ==
  framed.done =>
    /\ globalProgress = 0
         => Abs(framed.interpolated - element.treePos) <= PositionEpsilon
    /\ globalProgress = Unit
         => Abs(framed.interpolated - element.galaxyPos) <= PositionEpsilon
    /\ Abs(framed.position - framed.interpolated) <= BreatheAmplitude

\* the frame at progress 1 of the element with the longest delay, breathing
\* at its full amplitude
C18_Witness ==
  /\ framed.done
  /\ globalProgress = Unit
  /\ element.delay = 9999
  /\ element.sine = Unit
  /\ element.group = "particles"
  /\ element.treePos # element.galaxyPos

\* C19: a camera frame that follows a gesture-change event (no double-click
\* since) computes its target from the mode that event left the scene in
C19_CameraSeesNewMode ==
  [][(CameraFrame /\ lastEvent.kind \in GestureTypes)
       => /\ prevStateRef' = treeState
          /\ cameraTarget'.baseDistance = BaseDistance(treeState)]_vars

\* C21: for every stagger delay the eased local progress of an element,
\* smooth = s*s*(3-2s) with s = clamp(progress*k - delay*m, 0, 1), lies in
\* [0,1], is 0 at global progress 0 and 1 at global progress 1, and is not
\* smaller than at any smaller global progress
C21_SmoothMonotone ==
  framed.done =>
    /\ 0 <= framed.smooth /\ framed.smooth <= Unit
    /\ globalProgress = 0 => framed.smooth = 0
    /\ globalProgress = Unit => framed.smooth = Unit
    /\ \A progress \in Progresses :
         progress <= globalProgress
           => Smooth(Staggered(element.group, progress, element.delay))
                <= framed.smooth

\* a frame in mid-transition of an element with a delay: its local progress
\* is strictly between 0 and 1
C21_Witness ==
  /\ framed.done
  /\ globalProgress = 5000
  /\ element.delay = 5000
  /\ 0 < framed.smooth /\ framed.smooth < Unit

\* C22: for a fixed target, the camera position after frames whose
\* durations sum to dt equals the position after one frame of duration dt,
\* in every CameraController
C22_FrameRateIndependent ==
  (elapsed = totalDelta /\ totalDelta > 0)
    => positionRef = Smoothed(controller, startX, targetX, totalDelta)

\* C23: while `enabled` stays true the session is initialized once and is
\* not torn down or restarted (by a new callback identity or a mode change),
\* and a gesture change is handled by the callback of the last render (a
\* pinch event finds the mode of that render)
C23_OneSessionWhileEnabled ==
  /\ Len(sessions) = 0
  /\ [][/\ Len(sessions') <= 1
        /\ \A s \in SessionIds : sessions[s].mounted => sessions'[s].mounted
        /\ \A s \in SessionIds, r \in Results :
             (SendComplete(s, r) /\ callbackArg' = "pinch"
                /\ treeStateRef = "galaxy")
               => treeState' = "focus"]_vars


\* PhotoCards: the slice limit of photoData and the length of DEFAULT_PHOTOS
CardLimit == 20

DefaultPhotos == 20

\* PhotoCards: photoData.length, the number of PhotoCardMesh rendered
CardsRendered ==
  Min(IF photos > 0 THEN photos ELSE DefaultPhotos, CardLimit)

\* C24: whenever the mode is Focus, focusedPhotoIndex is smaller than the
\* number of photo cards currently rendered, also after photos are added,
\* removed or cleared while in Focus
C24_FocusedCardExists ==
  treeState = "focus" => focusedPhotoIndex < CardsRendered


\* C25: a tracked frame that follows a frame without a hand (or is the first
\* tracked frame) and shows Fist sets the mode to Tree, one that shows Open
\* sets it to Galaxy, whatever was emitted before the gap and whatever the
\* pointer did during it
C25_ReacquireForcesMode ==
  [][\A s \in SessionIds, r \in Results :
       (SendComplete(s, r) /\ ~state.isTracking /\ state'.isTracking) =>
         /\ state'.gesture = "fist" => treeState' = "tree"
         /\ state'.gesture = "open" => treeState' = "galaxy"]_vars


\* C26: the result of a frame that was still being processed when the
\* session was disabled invokes no onGestureChange callback and does not turn
\* isTracking on
C26_QuietAfterCleanup ==
  [][\A s \in SessionIds, r \in Results :
       (SendComplete(s, r) /\ ~sessions[s].mounted) =>
         /\ callbackArg' = NoCallback
         /\ state'.isTracking => state.isTracking]_vars


\* C27: a Pinch event received while the mode is Tree, and every 'none' or
\* 'pointing' event, leaves treeState and focusedPhotoIndex unchanged
C27_IgnoredEvents ==
  [][\A s \in SessionIds, r \in Results :
       (/\ SendComplete(s, r)
        /\ \/ callbackArg' \in {"none", "pointing"}
           \/ callbackArg' = "pinch" /\ treeState = "tree") =>
         (treeState' = treeState /\ focusedPhotoIndex' = focusedPhotoIndex)]_vars


\* the mode entered Tree from another mode since the last camera frame, and
\* the coming frame reads the mode Tree
EnteredTree ==
  /\ lastEvent # seenEvent
  /\ lastEvent.from # "tree"
  /\ treeState = "tree"
  /\ treeStateRef = "tree"

\* C30: after every camera frame the star-focused flag (isAtStarRef and the
\* last value passed to onStarFocused) is true only if the mode that frame
\* read is Tree, and the first frame after an entry into Tree from another
\* mode resets the flag, sets the ribbon time to 0 and starts the assembly
\* delay
C30_StarFlagFollowsTree ==
  [][CameraFrame =>
       /\ isAtStarRef' => prevStateRef' = "tree"
       /\ starFocused' = "true" => prevStateRef' = "tree"
       /\ EnteredTree =>
            /\ ~isAtStarRef'
            /\ starFocused' # "true"
            /\ ribbonTimeRef' = 0
            /\ transitionDelayRef' = AssemblyDelayFrames - 1]_vars


\* C28: once its texture is loaded and no tween of it is running, a photo
\* card is at the position and scale for the current mode and focus
\* (focused: the near-camera point and scale 5; otherwise its tree or galaxy
\* position and scale 0.4)
C28_CardSettles ==
  (texture /\ cardTweens = NoTweens) =>
    /\ cardPosition = CardTarget(cardProps).position
    /\ cardScale = CardTarget(cardProps).scale

\* the indices of the streams that are in state st
StreamsIn(st) == {i \in 1..Len(streams) : streams[i] = st}

\* C29: at most one stream of the camera preview is live at any time, and
\* when the preview is disabled, closed or minimized and no getUserMedia is
\* pending, none is live
C29_StreamsStopped ==
  /\ Cardinality(StreamsIn("live")) <= 1
  /\ (~PreviewActive(debugProps) /\ StreamsIn("pending") = {}) =>
       StreamsIn("live") = {}

====
